---- MODULE Spec2Model ----
(***************************************************************************)
(* State-machine model of the 360-degree evidence playback script          *)
(* (src/script.js): the orientation state (pan / tilt / zoom), the view    *)
(* mode switch with its lock flag, front-lens calibration, the pointer,    *)
(* touch, wheel and keyboard handlers, and the self-rescheduling raw-view  *)
(* render loop.                                                            *)
(*                                                                         *)
(* Angles are whole degrees.  Pointer coordinates are multiples of 10      *)
(* pixels, wheel deltas multiples of 20 and pinch distances multiples of   *)
(* 10, so that the products with 0.3, 0.05 and 0.1 are whole numbers and   *)
(* the integer arithmetic below is exact.  The JavaScript value NaN is     *)
(* represented by the number NaN, which lies outside every reachable       *)
(* range; the arithmetic helpers propagate it as IEEE arithmetic does.     *)
(* The quotients of the raw-view scaling and the angles in radians are     *)
(* exact fractions [n, d]; d = 0 stands for Infinity (n = 1), -Infinity    *)
(* (n = -1) and NaN (n = 0).  Radians are counted in units of pi.          *)
(***************************************************************************)
EXTENDS Integers, Sequences, FiniteSets, TLC

VARIABLES
    currentView,            \* state.currentView
    pan,                    \* state.pan
    tilt,                   \* state.tilt
    zoom,                   \* state.zoom
    viewLocked,             \* state.viewLocked
    rawViewInitialized,     \* state.rawViewInitialized
    frontLensOffset,        \* state.frontLensOffset
    initialOrientation,     \* state.initialOrientation
    isDragging,             \* state.isDragging
    previousMousePosition,  \* state.previousMousePosition
    touchStartDistance,     \* module-level let touchStartDistance
    video,                  \* the frame source behind state.video
    rafRaw,                 \* pending requestAnimationFrame(renderRawView) callbacks
    rawCalls,               \* canvas calls issued on the raw canvases by the last step
    canvasSize,             \* width and height of rawFrontCanvas and rawBackCanvas
    parentSize,             \* clientWidth and clientHeight of the parents of the raw canvases
    containerSize,          \* clientWidth and clientHeight of threejsContainer when it is shown
    aspect,                 \* state.camera.aspect
    camera,                 \* state.camera: rotation.y, rotation.x (units of pi) and fov
    compass,                \* orientation widget: the normalized pan shown, the arrow rotation
    lastEvent,              \* the handler that ran in the last step, and its input
    again,                  \* the last two steps ran the same handler on the same input
    nEvents                 \* number of user input events handled so far

vars == <<currentView, pan, tilt, zoom, viewLocked, rawViewInitialized,
          frontLensOffset, initialOrientation, isDragging,
          previousMousePosition, touchStartDistance, video, rafRaw,
          rawCalls, canvasSize, parentSize, containerSize, aspect,
          camera, compass, lastEvent, again, nEvents>>

---------------------------------------------------------------------------
(* Bounds of the exploration *)

\* user input events handled in one run
MaxEvents == 4

---------------------------------------------------------------------------
(* Numbers *)

\* the JavaScript NaN (result of parseFloat on a non-numeric text)
NaN == -1000000

IsNaN(x) == x = NaN

Add(a, b) == IF IsNaN(a) \/ IsNaN(b) THEN NaN ELSE a + b

Sub(a, b) == IF IsNaN(a) \/ IsNaN(b) THEN NaN ELSE a - b

Neg(a) == IF IsNaN(a) THEN NaN ELSE 0 - a

\* Math.max / Math.min: NaN if either argument is NaN
MathMax(a, b) == IF IsNaN(a) \/ IsNaN(b) THEN NaN ELSE IF a >= b THEN a ELSE b

MathMin(a, b) == IF IsNaN(a) \/ IsNaN(b) THEN NaN ELSE IF a <= b THEN a ELSE b

RECURSIVE SqrtBetween(_, _, _)
\* the largest r in lo..hi with r * r <= n, by bisection
SqrtBetween(n, lo, hi) ==
    IF lo = hi
    THEN lo
    ELSE LET mid == (lo + hi + 1) \div 2 IN
         IF mid * mid <= n
         THEN SqrtBetween(n, mid, hi)
         ELSE SqrtBetween(n, lo, mid - 1)

RECURSIVE SqrtAbove(_, _)
\* a power of two times h whose square exceeds n
SqrtAbove(n, h) == IF h * h > n THEN h ELSE SqrtAbove(n, 2 * h)

\* Math.sqrt; exact on the perfect squares the pinch inputs produce
MathSqrt(n) == SqrtBetween(n, 0, SqrtAbove(n, 1))

\* delta * 0.3 for a pointer delta in pixels (a multiple of 10)
TimesDragSensitivity(delta) == (delta * 3) \div 10

\* event.deltaY * -0.05 for a wheel delta (a multiple of 20)
TimesWheelSensitivity(deltaY) == 0 - (deltaY \div 20)

\* (touchStartDistance - distance) * 0.1 for distances that are multiples of 10
TimesPinchSensitivity(d) == d \div 10

---------------------------------------------------------------------------
(* Fractions *)

\* Euclid's algorithm on natural numbers
Euclid[a \in Nat, b \in Nat] == IF b = 0 THEN a ELSE Euclid[b, a % b]

Gcd(a, b) == Euclid[a, b]

Abs(a) == IF a < 0 THEN 0 - a ELSE a

\* the fraction n / d in lowest terms with d >= 0; x / 0 is Infinity,
\* -Infinity or NaN as in floating point division
Lowest[n \in Int, d \in Int] ==
    IF d = 0
    THEN [n |-> IF n > 0 THEN 1 ELSE IF n < 0 THEN 0 - 1 ELSE 0, d |-> 0]
    ELSE LET g == Gcd(Abs(n), Abs(d))
             sgn == IF d < 0 THEN 0 - 1 ELSE 1
         IN  [n |-> sgn * (n \div g), d |-> sgn * (d \div g)]

Frac(n, d) == Lowest[n, d]

\* a whole number, or NaN, as a fraction
FromInt(a) == IF IsNaN(a) THEN [n |-> 0, d |-> 0] ELSE [n |-> a, d |-> 1]

FracIsNaN(q) == q.n = 0 /\ q.d = 0

\* The operations on fractions are functions, which take the values of
\* their arguments, each worked out once.
Fractions == [n : Int, d : Nat]

Times[p \in Fractions, q \in Fractions] == Frac(p.n * q.n, p.d * q.d)

FracMul(p, q) == Times[p, q]

Over[p \in Fractions, q \in Fractions] ==
    IF q.n < 0
    THEN Frac(0 - (p.n * q.d), p.d * (0 - q.n))
    ELSE Frac(p.n * q.d, p.d * q.n)

FracDiv(p, q) == Over[p, q]

Minus[p \in Fractions, q \in Fractions] ==
    IF p.d = 0 /\ q.d = 0
    THEN (IF p.n = 0 \/ q.n = 0 \/ p.n = q.n
          THEN [n |-> 0, d |-> 0]
          ELSE p)
    ELSE IF q.d = 0
    THEN [n |-> 0 - q.n, d |-> 0]
    ELSE Frac(p.n * q.d - q.n * p.d, p.d * q.d)

FracSub(p, q) == Minus[p, q]

\* p <= q for fractions that are not NaN
FracLeq(p, q) ==
    IF p.d = 0 /\ q.d = 0 THEN p.n <= q.n ELSE p.n * q.d <= q.n * p.d

\* Math.min on fractions: NaN if either argument is NaN
Least[p \in Fractions, q \in Fractions] ==
    IF FracIsNaN(p) \/ FracIsNaN(q)
    THEN [n |-> 0, d |-> 0]
    ELSE IF FracLeq(p, q) THEN p ELSE q

FracMin(p, q) == Least[p, q]

\* THREE.MathUtils.degToRad: degrees * pi / 180, in units of pi
DegToRad(degrees) == FracDiv(FromInt(degrees), FromInt(180))

\* the JavaScript remainder a % b: the sign of the dividend, NaN for NaN
JsRem(a, b) ==
    IF IsNaN(a) THEN NaN
    ELSE IF a >= 0 THEN a % b ELSE 0 - ((0 - a) % b)

---------------------------------------------------------------------------
(* Texts *)

Digits == {"0", "1", "2", "3", "4", "5", "6", "7", "8", "9"}

DigitValue(c) ==
    CASE c = "0" -> 0 [] c = "1" -> 1 [] c = "2" -> 2 [] c = "3" -> 3
      [] c = "4" -> 4 [] c = "5" -> 5 [] c = "6" -> 6 [] c = "7" -> 7
      [] c = "8" -> 8 [] c = "9" -> 9

RECURSIVE LeadingDigits(_, _)
\* value of the longest prefix of digits of text, continuing from acc;
\* NaN when acc is NaN and the text starts with no digit
LeadingDigits(text, acc) ==
    IF text = <<>> \/ Head(text) \notin Digits
    THEN acc
    ELSE LeadingDigits(Tail(text),
                       (IF IsNaN(acc) THEN 0 ELSE acc * 10) + DigitValue(Head(text)))

\* parseFloat restricted to texts without fraction or exponent: an optional
\* sign, then the longest run of digits; NaN when there is no digit
ParseFloat(text) ==
    IF text # <<>> /\ Head(text) = "-"
    THEN Neg(LeadingDigits(Tail(text), NaN))
    ELSE IF text # <<>> /\ Head(text) = "+"
    THEN LeadingDigits(Tail(text), NaN)
    ELSE LeadingDigits(text, NaN)

---------------------------------------------------------------------------
(* Input domains *)

ViewModes == {"stitched", "front", "back", "rawview", "flatview"}

\* pointer positions (clientX, clientY); all pairwise distances are whole
Points == { [x |-> 0, y |-> 0], [x |-> 300, y |-> 0], [x |-> 0, y |-> 400] }

\* event.touches: one finger, or two fingers
TouchLists ==
    { <<p>> : p \in Points } \cup
    { <<[x |-> 0, y |-> 0], [x |-> 300, y |-> 0]>>,
      <<[x |-> 0, y |-> 0], [x |-> 0, y |-> 400]>>,
      <<[x |-> 300, y |-> 0], [x |-> 0, y |-> 400]>> }

WheelDeltas == {-100, 100, 2400}

\* keys of the keydown switch that write the orientation, and one that does not
Keys == {"ArrowUp", "ArrowDown", "w", "s", "a", "d", "+", "=", "-", "_",
         "r", "c", " "}

\* keydown events: each key outside a text field, and one inside
KeyEvents == { <<k, FALSE>> : k \in Keys } \cup { <<"w", TRUE>> }

PTZTypes == {"pan", "tilt", "zoom"}

\* texts typed into a PTZ input
PTZTexts == { <<>>, <<"-", "2", "0", "0">>, <<"4", "5">>, <<"2", "7", "0">> }

\* HTMLMediaElement.HAVE_CURRENT_DATA
HAVE_CURRENT_DATA == 2

\* states of the frame source: no source, loading, metadata only, decodable
\* frame, and a decodable source that reports no picture (width 0)
VideoStates ==
    { [src |-> FALSE, readyState |-> 0, videoWidth |-> 0, videoHeight |-> 0],
      [src |-> TRUE, readyState |-> 0, videoWidth |-> 0, videoHeight |-> 0],
      [src |-> TRUE, readyState |-> 1, videoWidth |-> 3840, videoHeight |-> 1920],
      [src |-> TRUE, readyState |-> 4, videoWidth |-> 3840, videoHeight |-> 1920],
      [src |-> TRUE, readyState |-> 4, videoWidth |-> 1280, videoHeight |-> 720],
      [src |-> TRUE, readyState |-> 4, videoWidth |-> 0, videoHeight |-> 0] }

\* Page layouts a window size gives: the client size of threejsContainer
\* and of the parents of the two raw canvases.  The first is the layout the
\* page is loaded with; the others have raw canvases of different shapes, a
\* front parent no wider than the 32 pixels taken off its width and a back
\* parent no higher than the 50 pixels taken off its height, and parents
\* smaller than both.
Layouts ==
    { [container |-> [clientWidth |-> 1280, clientHeight |-> 720],
       front |-> [clientWidth |-> 832, clientHeight |-> 650],
       back |-> [clientWidth |-> 832, clientHeight |-> 650]],
      [container |-> [clientWidth |-> 800, clientHeight |-> 600],
       front |-> [clientWidth |-> 432, clientHeight |-> 350],
       back |-> [clientWidth |-> 332, clientHeight |-> 650]],
      [container |-> [clientWidth |-> 640, clientHeight |-> 480],
       front |-> [clientWidth |-> 32, clientHeight |-> 650],
       back |-> [clientWidth |-> 832, clientHeight |-> 50]],
      [container |-> [clientWidth |-> 320, clientHeight |-> 240],
       front |-> [clientWidth |-> 20, clientHeight |-> 40],
       back |-> [clientWidth |-> 432, clientHeight |-> 350]] }

---------------------------------------------------------------------------
(* The main render loop's outputs *)

\* camera.aspect for a container of the given client size
AspectOf(size) == FracDiv(FromInt(size.clientWidth), FromInt(size.clientHeight))

\* the client size of threejsContainer in the given mode: it is not
\* displayed in rawview, and an element that is not displayed measures 0 x 0
ClientSize(cv, size) ==
    IF cv # "rawview" THEN size ELSE [clientWidth |-> 0, clientHeight |-> 0]

\* a camera transform whose yaw leaves the front lens offset out
CameraForPanOnly(p, offset, t, z) ==
    [rotationY |-> DegToRad(p),
     rotationX |-> DegToRad(t),
     fov |-> z]

\* the camera transform animate writes: yaw from pan + frontLensOffset,
\* pitch from tilt, field of view from zoom
CameraFor(p, offset, t, z) ==
    [rotationY |-> DegToRad(Add(p, offset)),
     rotationX |-> DegToRad(t),
     fov |-> z]

\* the pan normalized for display by updateOrientationWidget
NormalizedPan(p) == JsRem(Add(JsRem(p, 360), 360), 360)

\* what updateOrientationWidget shows: the normalized pan and the
\* rotation of the direction arrow
WidgetFor(p) ==
    [normalizedPan |-> NormalizedPan(p),
     rotation |-> Add(Neg(NormalizedPan(p)), 180)]

---------------------------------------------------------------------------
(* Initial state: the state object literal, touchStartDistance, the raw  *)
(* canvases at the default canvas size, and the first run of animate     *)

Init ==
    /\ currentView = "stitched"
    /\ pan = 0
    /\ tilt = 0
    /\ zoom = 75
    /\ viewLocked = FALSE
    /\ rawViewInitialized = FALSE
    /\ frontLensOffset = 91
    /\ initialOrientation = [pan |-> 0, tilt |-> 0, zoom |-> 75]
    /\ isDragging = FALSE
    /\ previousMousePosition = [x |-> 0, y |-> 0]
    /\ touchStartDistance = 0
    /\ video = [src |-> FALSE, readyState |-> 0, videoWidth |-> 0, videoHeight |-> 0]
    /\ rafRaw = 0
    /\ rawCalls = <<>>
    /\ canvasSize = [front |-> [width |-> 300, height |-> 150],
                     back |-> [width |-> 300, height |-> 150]]
    /\ parentSize = [front |-> [clientWidth |-> 832, clientHeight |-> 650],
                     back |-> [clientWidth |-> 832, clientHeight |-> 650]]
    /\ containerSize = [clientWidth |-> 1280, clientHeight |-> 720]
    /\ aspect = AspectOf([clientWidth |-> 1280, clientHeight |-> 720])
    /\ camera = CameraFor(0, 91, 0, 75)
    /\ compass = WidgetFor(0)
    /\ lastEvent = <<"init", "none">>
    /\ again = FALSE
    /\ nEvents = 0

---------------------------------------------------------------------------
(* Frames *)

orientVars == <<pan, tilt, zoom>>

calibVars == <<frontLensOffset, initialOrientation>>

modeVars == <<currentView, viewLocked>>

dragVars == <<isDragging, previousMousePosition>>

\* a step that neither runs renderRawView nor schedules it
NoRawRender ==
    /\ rawCalls' = <<>>
    /\ UNCHANGED <<rawViewInitialized, rafRaw, canvasSize>>

\* a handler that returns without writing anything
NoEffect ==
    /\ NoRawRender
    /\ UNCHANGED <<orientVars, calibVars, modeVars, dragVars,
                   touchStartDistance, video>>

---------------------------------------------------------------------------
(* View mode switching *)

\* setFrontView that forgets to widen the field of view
SetFrontViewKeepsZoom ==
    /\ pan' = 0
    /\ tilt' = 0
    /\ zoom' = zoom

SetFrontView ==
    /\ pan' = 0
    /\ tilt' = 0
    /\ zoom' = 100

\* setBackView that turns half a revolution from the current pan
SetBackViewRelative ==
    /\ pan' = Add(pan, 180)
    /\ tilt' = 0
    /\ zoom' = 100

SetBackView ==
    /\ pan' = 180
    /\ tilt' = 0
    /\ zoom' = 100

\* the fillRect calls that clear both raw canvases
ClearCanvases ==
    << [canvas |-> "front", op |-> "fillRect"],
       [canvas |-> "back", op |-> "fillRect"] >>

\* the two fillText calls (title, subtitle) of drawPlaceholder
DrawPlaceholder(canvas) ==
    << [canvas |-> canvas, op |-> "fillText"],
       [canvas |-> canvas, op |-> "fillText"] >>

\* a destination rectangle whose offsets are the whole margin, not half
FitRectNotHalved(sourceWidth, videoHeight, canvas) ==
    LET cw == FromInt(canvas.width)
        ch == FromInt(canvas.height)
        scale == FracMin(FracDiv(cw, sourceWidth), FracDiv(ch, videoHeight))
        drawWidth == FracMul(sourceWidth, scale)
        drawHeight == FracMul(videoHeight, scale)
    IN  [x |-> FracSub(cw, drawWidth),
         y |-> FracSub(ch, drawHeight),
         drawWidth |-> drawWidth,
         drawHeight |-> drawHeight]

\* the scale and the destination rectangle renderRawView computes for a
\* source of width sourceWidth and the frame's height on one canvas
FitRect(sourceWidth, videoHeight, canvas) ==
    LET cw == FromInt(canvas.width)
        ch == FromInt(canvas.height)
        scale == FracMin(FracDiv(cw, sourceWidth), FracDiv(ch, videoHeight))
        drawWidth == FracMul(sourceWidth, scale)
        drawHeight == FracMul(videoHeight, scale)
    IN  [x |-> FracDiv(FracSub(cw, drawWidth), FromInt(2)),
         y |-> FracDiv(FracSub(ch, drawHeight), FromInt(2)),
         drawWidth |-> drawWidth,
         drawHeight |-> drawHeight]

\* the destination rectangles fitted to the whole frame width instead of
\* the half width of one lens
DrawRectsWholeWidth(vid, canvases) ==
    LET videoHeight == FromInt(vid.videoHeight)
        videoWidth == FromInt(vid.videoWidth)
    IN  [front |-> FitRect(videoWidth, videoHeight, canvases.front),
         back |-> FitRect(videoWidth, videoHeight, canvases.back)]

\* the destination rectangles of the front and the back image
DrawRects(vid, canvases) ==
    LET videoHeight == FromInt(vid.videoHeight)
        halfWidth == FracDiv(FromInt(vid.videoWidth), FromInt(2))
    IN  [front |-> FitRect(halfWidth, videoHeight, canvases.front),
         back |-> FitRect(halfWidth, videoHeight, canvases.back)]

\* the two crop/scale drawImage calls: left half to front, right half to back
DrawImages(vid, canvases) ==
    LET halfWidth == FracDiv(FromInt(vid.videoWidth), FromInt(2))
        rects == DrawRects(vid, canvases)
    IN  << [canvas |-> "front", op |-> "drawImage",
            sx |-> FromInt(0), sy |-> 0,
            sWidth |-> halfWidth, sHeight |-> vid.videoHeight,
            dest |-> rects.front],
           [canvas |-> "back", op |-> "drawImage",
            sx |-> halfWidth, sy |-> 0,
            sWidth |-> halfWidth, sHeight |-> vid.videoHeight,
            dest |-> rects.back] >>

\* how the try block around the two drawImage calls ends: both calls
\* return, or the first or the second one throws
DrawOutcomes == {"drawn", "frontThrows", "backThrows"}

\* console.error of the catch block
LogError == << [canvas |-> "console", op |-> "error"] >>

\* the calls of the try / catch of renderRawView: a drawImage that throws
\* draws nothing and ends the try block, the catch block logs the error
TryDrawImages(vid, canvases, outcome) ==
    CASE outcome = "drawn" -> DrawImages(vid, canvases)
      [] outcome = "frontThrows" -> LogError
      [] outcome = "backThrows" -> <<DrawImages(vid, canvases)[1]>> \o LogError

\* the condition of the image branch of renderRawView
VideoReady(vid) == vid.src /\ vid.readyState >= HAVE_CURRENT_DATA

\* renderRawView without its mode check at the top
RenderRawViewUnchecked(cv, vid, initd, pending, canvases, outcome) ==
    IF VideoReady(vid)
    THEN [calls |-> ClearCanvases \o TryDrawImages(vid, canvases, outcome),
          rawViewInitialized |-> TRUE,
          rafRaw |-> pending + 1]
    ELSE [calls |-> ClearCanvases \o DrawPlaceholder("front") \o DrawPlaceholder("back"),
          rawViewInitialized |-> initd,
          rafRaw |-> pending + 1]

\* renderRawView without the try / catch: a drawImage that throws ends the
\* run before it reschedules itself
RenderRawViewNoCatch(cv, vid, initd, pending, canvases, outcome) ==
    IF cv # "rawview"
    THEN [calls |-> <<>>, rawViewInitialized |-> initd, rafRaw |-> pending]
    ELSE IF VideoReady(vid)
    THEN [calls |-> ClearCanvases \o TryDrawImages(vid, canvases, outcome),
          rawViewInitialized |-> TRUE,
          rafRaw |-> IF outcome = "drawn" THEN pending + 1 ELSE pending]
    ELSE [calls |-> ClearCanvases \o DrawPlaceholder("front") \o DrawPlaceholder("back"),
          rawViewInitialized |-> initd,
          rafRaw |-> pending + 1]

\* renderRawView that reschedules itself before it looks at the mode
RenderRawViewKeepsRunning(cv, vid, initd, pending, canvases, outcome) ==
    IF cv # "rawview"
    THEN [calls |-> <<>>, rawViewInitialized |-> initd, rafRaw |-> pending + 1]
    ELSE IF VideoReady(vid)
    THEN [calls |-> ClearCanvases \o TryDrawImages(vid, canvases, outcome),
          rawViewInitialized |-> TRUE,
          rafRaw |-> pending + 1]
    ELSE [calls |-> ClearCanvases \o DrawPlaceholder("front") \o DrawPlaceholder("back"),
          rawViewInitialized |-> initd,
          rafRaw |-> pending + 1]

\* One run of renderRawView in mode cv with frame source vid, the
\* initialization flag initd, pending other callbacks and the raw canvases
\* at the given sizes: the canvas calls it issues, the flag and the number
\* of pending callbacks it leaves.  outcome is how its drawImage calls
\* end, if it makes them.
RenderRawView(cv, vid, initd, pending, canvases, outcome) ==
    IF cv # "rawview"
    THEN [calls |-> <<>>, rawViewInitialized |-> initd, rafRaw |-> pending]
    ELSE IF VideoReady(vid)
    THEN [calls |-> ClearCanvases \o TryDrawImages(vid, canvases, outcome),
          rawViewInitialized |-> TRUE,
          rafRaw |-> pending + 1]
    ELSE [calls |-> ClearCanvases \o DrawPlaceholder("front") \o DrawPlaceholder("back"),
          rawViewInitialized |-> initd,
          rafRaw |-> pending + 1]

\* resizeCanvas of updateRawView: the canvas size for a parent's client size
CanvasDefaultWidth == 300
CanvasDefaultHeight == 150

\* what a canvas dimension holds after an assignment: the number, or the
\* default when the number is negative
CanvasDimension(value, default) == IF value >= 0 THEN value ELSE default

ResizeCanvas(parent) ==
    [width |-> CanvasDimension(parent.clientWidth - 32, CanvasDefaultWidth),
     height |-> CanvasDimension(parent.clientHeight - 50, CanvasDefaultHeight)]

\* updateRawView after handleViewChange has set currentView and cleared
\* rawViewInitialized: sizes the canvases and calls renderRawView at once
UpdateRawView(cv) ==
    \E outcome \in DrawOutcomes :
    LET resized == [front |-> ResizeCanvas(parentSize.front),
                    back |-> ResizeCanvas(parentSize.back)]
        r == RenderRawView(cv, video, FALSE, rafRaw, resized, outcome)
    IN
    /\ canvasSize' = resized
    /\ rawCalls' = r.calls
    /\ rawViewInitialized' = r.rawViewInitialized
    /\ rafRaw' = r.rafRaw

\* handleViewChange whose stitched case also returns to the home orientation
HandleViewChangeHome(newView) ==
    /\ currentView' = newView
    /\ CASE newView = "stitched" ->
              /\ viewLocked' = FALSE
              /\ pan' = initialOrientation.pan
              /\ tilt' = initialOrientation.tilt
              /\ zoom' = initialOrientation.zoom
              /\ NoRawRender
         [] newView = "front" ->
              /\ viewLocked' = TRUE
              /\ SetFrontView
              /\ NoRawRender
         [] newView = "back" ->
              /\ viewLocked' = TRUE
              /\ SetBackView
              /\ NoRawRender
         [] newView = "rawview" ->
              /\ UNCHANGED <<viewLocked, orientVars>>
              /\ UpdateRawView(newView)
         [] newView = "flatview" ->
              /\ viewLocked' = TRUE
              /\ SetFrontView
              /\ NoRawRender
    /\ aspect' = IF newView # "rawview" THEN AspectOf(containerSize) ELSE aspect
    /\ UNCHANGED <<calibVars, dragVars, touchStartDistance, video>>

HandleViewChange(newView) ==
    /\ currentView' = newView
    /\ CASE newView = "stitched" ->
              /\ viewLocked' = FALSE
              /\ UNCHANGED orientVars
              /\ NoRawRender
         [] newView = "front" ->
              /\ viewLocked' = TRUE
              /\ SetFrontView
              /\ NoRawRender
         [] newView = "back" ->
              /\ viewLocked' = TRUE
              /\ SetBackView
              /\ NoRawRender
         [] newView = "rawview" ->
              /\ UNCHANGED <<viewLocked, orientVars>>
              /\ UpdateRawView(newView)
         [] newView = "flatview" ->
              /\ viewLocked' = TRUE
              /\ SetFrontView
              /\ NoRawRender
    /\ aspect' = IF newView # "rawview" THEN AspectOf(containerSize) ELSE aspect
    /\ UNCHANGED <<calibVars, dragVars, touchStartDistance, video>>

\* a pending requestAnimationFrame(renderRawView) callback fires
RenderRawViewCallback ==
    /\ rafRaw > 0
    /\ \E outcome \in DrawOutcomes :
        LET r == RenderRawView(currentView, video, rawViewInitialized,
                               rafRaw - 1, canvasSize, outcome) IN
        /\ rawCalls' = r.calls
        /\ rawViewInitialized' = r.rawViewInitialized
        /\ rafRaw' = r.rafRaw
    /\ UNCHANGED canvasSize
    /\ UNCHANGED <<orientVars, calibVars, modeVars, dragVars,
                   touchStartDistance, video>>

\* the frame source changes: a file is chosen (handleVideoUpload sets
\* video.src) or the browser's decoding of it progresses
FrameSourceChange(vid) ==
    /\ vid # video
    /\ video' = vid
    /\ NoRawRender
    /\ UNCHANGED <<orientVars, calibVars, modeVars, dragVars, touchStartDistance>>

---------------------------------------------------------------------------
(* Pan / tilt / zoom controls *)

\* resetView that restores the initial orientation in every mode
ResetViewIgnoresMode ==
    /\ pan' = initialOrientation.pan
    /\ tilt' = initialOrientation.tilt
    /\ zoom' = initialOrientation.zoom
    /\ NoRawRender
    /\ UNCHANGED <<calibVars, modeVars, dragVars, touchStartDistance, video>>

\* resetView that also releases the lock
ResetViewUnlocks ==
    /\ IF currentView = "front" \/ currentView = "flatview"
       THEN SetFrontView
       ELSE IF currentView = "back"
       THEN SetBackView
       ELSE /\ pan' = initialOrientation.pan
            /\ tilt' = initialOrientation.tilt
            /\ zoom' = initialOrientation.zoom
    /\ viewLocked' = FALSE
    /\ NoRawRender
    /\ UNCHANGED <<calibVars, currentView, dragVars, touchStartDistance, video>>

ResetView ==
    /\ IF currentView = "front" \/ currentView = "flatview"
       THEN SetFrontView
       ELSE IF currentView = "back"
       THEN SetBackView
       ELSE /\ pan' = initialOrientation.pan
            /\ tilt' = initialOrientation.tilt
            /\ zoom' = initialOrientation.zoom
    /\ NoRawRender
    /\ UNCHANGED <<calibVars, modeVars, dragVars, touchStartDistance, video>>

\* calibrateFrontLens that records the current pan as the home pan
CalibrateFrontLensSnapshot ==
    /\ frontLensOffset' = Neg(pan)
    /\ initialOrientation' = [initialOrientation EXCEPT !.pan = pan]
    /\ pan' = 0
    /\ NoRawRender
    /\ UNCHANGED <<tilt, zoom, modeVars, dragVars, touchStartDistance, video>>

\* calibrateFrontLens that takes the current tilt and zoom as the home
CalibrateFrontLensHome ==
    /\ frontLensOffset' = Neg(pan)
    /\ initialOrientation' = [pan |-> 0, tilt |-> tilt, zoom |-> zoom]
    /\ pan' = 0
    /\ NoRawRender
    /\ UNCHANGED <<tilt, zoom, modeVars, dragVars, touchStartDistance, video>>

\* calibrateFrontLens that also levels the tilt
CalibrateFrontLensLevel ==
    /\ frontLensOffset' = Neg(pan)
    /\ initialOrientation' = [initialOrientation EXCEPT !.pan = 0]
    /\ pan' = 0
    /\ tilt' = 0
    /\ NoRawRender
    /\ UNCHANGED <<zoom, modeVars, dragVars, touchStartDistance, video>>

CalibrateFrontLens ==
    /\ frontLensOffset' = Neg(pan)
    /\ initialOrientation' = [initialOrientation EXCEPT !.pan = 0]
    /\ pan' = 0
    /\ NoRawRender
    /\ UNCHANGED <<tilt, zoom, modeVars, dragVars, touchStartDistance, video>>

\* the change handler of the PTZ input of the given type
PTZInputChange(type, text) ==
    LET value == ParseFloat(text) IN
    /\ CASE type = "pan" ->
              /\ pan' = MathMax(-180, MathMin(180, value))
              /\ UNCHANGED <<tilt, zoom>>
         [] type = "tilt" ->
              /\ tilt' = MathMax(-90, MathMin(90, value))
              /\ UNCHANGED <<pan, zoom>>
         [] type = "zoom" ->
              /\ zoom' = MathMax(20, MathMin(120, value))
              /\ UNCHANGED <<pan, tilt>>
    /\ NoRawRender
    /\ UNCHANGED <<calibVars, modeVars, dragVars, touchStartDistance, video>>

---------------------------------------------------------------------------
(* Mouse / touch interaction *)

\* the pan / tilt update shared verbatim by onMouseMove and onTouchMove
DragTo(p) ==
    LET deltaX == p.x - previousMousePosition.x
        deltaY == p.y - previousMousePosition.y
    IN  /\ pan' = Sub(pan, TimesDragSensitivity(deltaX))
        /\ tilt' = MathMax(-90, MathMin(90, Add(tilt, TimesDragSensitivity(deltaY))))
        /\ previousMousePosition' = p

OnMouseDown(p) ==
    IF viewLocked
    THEN NoEffect
    ELSE /\ isDragging' = TRUE
         /\ previousMousePosition' = p
         /\ NoRawRender
         /\ UNCHANGED <<orientVars, calibVars, modeVars, touchStartDistance, video>>

OnMouseMove(p) ==
    IF ~isDragging
    THEN NoEffect
    ELSE /\ DragTo(p)
         /\ NoRawRender
         /\ UNCHANGED <<zoom, isDragging, calibVars, modeVars,
                        touchStartDistance, video>>

OnMouseUp ==
    /\ isDragging' = FALSE
    /\ NoRawRender
    /\ UNCHANGED <<orientVars, calibVars, modeVars, previousMousePosition,
                   touchStartDistance, video>>

\* onMouseWheel with the lock check of onMouseDown in front of it
OnMouseWheelWhenUnlocked(deltaY) ==
    IF viewLocked
    THEN NoEffect
    ELSE /\ zoom' = MathMax(20, MathMin(120, Sub(zoom, TimesWheelSensitivity(deltaY))))
         /\ NoRawRender
         /\ UNCHANGED <<pan, tilt, calibVars, modeVars, dragVars,
                        touchStartDistance, video>>

OnMouseWheel(deltaY) ==
    LET delta == TimesWheelSensitivity(deltaY) IN
    /\ zoom' = MathMax(20, MathMin(120, Sub(zoom, delta)))
    /\ NoRawRender
    /\ UNCHANGED <<pan, tilt, calibVars, modeVars, dragVars,
                   touchStartDistance, video>>

\* distance between the two fingers of a two-finger touch list
TouchDistance(touches) ==
    LET dx == touches[1].x - touches[2].x
        dy == touches[1].y - touches[2].y
    IN  MathSqrt(dx * dx + dy * dy)

OnTouchStart(touches) ==
    IF Len(touches) = 1
    THEN /\ isDragging' = TRUE
         /\ previousMousePosition' = touches[1]
         /\ NoRawRender
         /\ UNCHANGED <<orientVars, calibVars, modeVars, touchStartDistance, video>>
    ELSE IF Len(touches) = 2
    THEN /\ touchStartDistance' = TouchDistance(touches)
         /\ NoRawRender
         /\ UNCHANGED <<orientVars, calibVars, modeVars, dragVars, video>>
    ELSE NoEffect

\* onTouchMove whose pinch keeps measuring from the distance at touchstart
OnTouchMoveFromStart(touches) ==
    IF Len(touches) = 1 /\ isDragging
    THEN /\ DragTo(touches[1])
         /\ NoRawRender
         /\ UNCHANGED <<zoom, isDragging, calibVars, modeVars,
                        touchStartDistance, video>>
    ELSE IF Len(touches) = 2
    THEN LET distance == TouchDistance(touches)
             delta == TimesPinchSensitivity(touchStartDistance - distance)
         IN  /\ zoom' = MathMax(20, MathMin(120, Add(zoom, delta)))
             /\ NoRawRender
             /\ UNCHANGED <<pan, tilt, calibVars, modeVars, dragVars,
                            touchStartDistance, video>>
    ELSE NoEffect

OnTouchMove(touches) ==
    IF Len(touches) = 1 /\ isDragging
    THEN /\ DragTo(touches[1])
         /\ NoRawRender
         /\ UNCHANGED <<zoom, isDragging, calibVars, modeVars,
                        touchStartDistance, video>>
    ELSE IF Len(touches) = 2
    THEN LET distance == TouchDistance(touches)
             delta == TimesPinchSensitivity(touchStartDistance - distance)
         IN  /\ zoom' = MathMax(20, MathMin(120, Add(zoom, delta)))
             /\ touchStartDistance' = distance
             /\ NoRawRender
             /\ UNCHANGED <<pan, tilt, calibVars, modeVars, dragVars, video>>
    ELSE NoEffect

OnTouchEnd ==
    /\ isDragging' = FALSE
    /\ NoRawRender
    /\ UNCHANGED <<orientVars, calibVars, modeVars, previousMousePosition,
                   touchStartDistance, video>>

---------------------------------------------------------------------------
(* Keyboard shortcuts *)

\* a branch of the keydown switch that writes only tilt
SetTilt(v) ==
    /\ tilt' = v
    /\ NoRawRender
    /\ UNCHANGED <<pan, zoom, calibVars, modeVars, dragVars,
                   touchStartDistance, video>>

\* a branch of the keydown switch that writes only pan
SetPan(v) ==
    /\ pan' = v
    /\ NoRawRender
    /\ UNCHANGED <<tilt, zoom, calibVars, modeVars, dragVars,
                   touchStartDistance, video>>

\* a branch of the keydown switch that writes only zoom
SetZoom(v) ==
    /\ zoom' = v
    /\ NoRawRender
    /\ UNCHANGED <<pan, tilt, calibVars, modeVars, dragVars,
                   touchStartDistance, video>>

\* the document keydown listener; targetIsInput: the event target is an
\* INPUT or TEXTAREA element
KeyDown(key, targetIsInput) ==
    IF targetIsInput
    THEN NoEffect
    ELSE CASE key \in {"ArrowUp", "w"} -> SetTilt(MathMax(-90, Add(tilt, 5)))
           [] key \in {"ArrowDown", "s"} -> SetTilt(MathMin(90, Sub(tilt, 5)))
           [] key = "r" -> ResetView
           [] key = "c" -> CalibrateFrontLens
           [] key = "a" -> SetPan(Sub(pan, 5))
           [] key = "d" -> SetPan(Add(pan, 5))
           [] key \in {"+", "="} -> SetZoom(MathMax(20, Sub(zoom, 5)))
           [] key \in {"-", "_"} -> SetZoom(MathMin(120, Add(zoom, 5)))
           [] OTHER -> NoEffect

\* the operation a keydown event runs: the view functions for r and c
KeyOperation(key, targetIsInput) ==
    IF targetIsInput THEN "keydown"
    ELSE IF key = "r" THEN "resetView"
    ELSE IF key = "c" THEN "calibrateFrontLens"
    ELSE "keydown"

---------------------------------------------------------------------------
(* The event loop *)

\* the threejs container is shown in every mode but rawview; mouse and wheel
\* events are hit-tested one by one and a touch can only start on a shown
\* element, so these reach its listeners only while it is shown.  The
\* touchmove and touchend events of a touch go to the element the touch
\* started on, also after a mode change has hidden it.
ContainerShown == currentView # "rawview"

\* what only the main render loop and the page layout write
displayVars == <<camera, compass, parentSize, containerSize>>

\* one user input event is dispatched to the named handler with the given
\* input; again tells whether the event before it was the same
Dispatch(handler, input) ==
    /\ nEvents < MaxEvents
    /\ nEvents' = nEvents + 1
    /\ lastEvent' = <<handler, input>>
    /\ again' = (lastEvent = <<handler, input>>)
    /\ IF handler = "handleViewChange" THEN TRUE ELSE UNCHANGED aspect
    /\ UNCHANGED displayVars

ViewChangeEvent ==
    \E newView \in ViewModes :
        Dispatch("handleViewChange", newView) /\ HandleViewChange(newView)

ResetEvent == Dispatch("resetView", "click") /\ ResetView

CalibrateEvent == Dispatch("calibrateFrontLens", "click") /\ CalibrateFrontLens

PTZInputEvent ==
    \E type \in PTZTypes, text \in PTZTexts :
        Dispatch("ptzInput", type) /\ PTZInputChange(type, text)

MouseDownEvent ==
    \E p \in Points :
        ContainerShown /\ Dispatch("onMouseDown", "mouse") /\ OnMouseDown(p)

MouseMoveEvent ==
    \E p \in Points :
        ContainerShown /\ Dispatch("onMouseMove", "mouse") /\ OnMouseMove(p)

MouseUpEvent == ContainerShown /\ Dispatch("onMouseUp", "mouse") /\ OnMouseUp

WheelEvent ==
    \E deltaY \in WheelDeltas :
        ContainerShown /\ Dispatch("onMouseWheel", ToString(deltaY)) /\ OnMouseWheel(deltaY)

\* how many fingers a touch list holds
TouchKind(touches) == IF Len(touches) = 2 THEN "twoFingers" ELSE "oneFinger"

TouchStartEvent ==
    \E touches \in TouchLists :
        ContainerShown /\ Dispatch("onTouchStart", "touch") /\ OnTouchStart(touches)

TouchMoveEvent ==
    \E touches \in TouchLists :
        Dispatch("onTouchMove", TouchKind(touches)) /\ OnTouchMove(touches)

TouchEndEvent == Dispatch("onTouchEnd", "touch") /\ OnTouchEnd

KeyDownEvent ==
    \E ev \in KeyEvents :
        Dispatch(KeyOperation(ev[1], ev[2]), "key") /\ KeyDown(ev[1], ev[2])

RawFrame ==
    /\ RenderRawViewCallback
    /\ lastEvent' = <<"renderRawView", "frame">>
    /\ again' = FALSE
    /\ UNCHANGED <<nEvents, displayVars, aspect>>

VideoEvent ==
    \E vid \in VideoStates :
        /\ FrameSourceChange(vid)
        /\ lastEvent' = <<"frameSource", "video">>
        /\ again' = FALSE
        /\ UNCHANGED <<nEvents, displayVars, aspect>>

\* one tick of animate, the requestAnimationFrame callback of the 3D view:
\* the camera transform and the orientation widget are set from the state
Animate ==
    /\ camera' = CameraFor(pan, frontLensOffset, tilt, zoom)
    /\ compass' = WidgetFor(pan)
    /\ NoRawRender
    /\ UNCHANGED <<orientVars, calibVars, modeVars, dragVars,
                   touchStartDistance, video, parentSize, containerSize, aspect>>

\* the window is resized: the page is laid out anew and onWindowResize
\* sets camera.aspect from the client size of threejsContainer
OnWindowResize(layout) ==
    /\ containerSize' = layout.container
    /\ parentSize' = [front |-> layout.front, back |-> layout.back]
    /\ aspect' = AspectOf(ClientSize(currentView, layout.container))
    /\ NoRawRender
    /\ UNCHANGED <<orientVars, calibVars, modeVars, dragVars,
                   touchStartDistance, video, camera, compass>>

WindowResize ==
    \E layout \in Layouts :
        /\ OnWindowResize(layout)
        /\ lastEvent' = <<"onWindowResize", "resize">>
        /\ again' = FALSE
        /\ UNCHANGED nEvents

AnimationFrame ==
    /\ Animate
    /\ lastEvent' = <<"animate", "frame">>
    /\ again' = FALSE
    /\ UNCHANGED nEvents

\* The operator's session on a player whose frame source does not change
Next ==
    \/ ViewChangeEvent
    \/ ResetEvent
    \/ CalibrateEvent
    \/ PTZInputEvent
    \/ MouseDownEvent
    \/ MouseMoveEvent
    \/ MouseUpEvent
    \/ WheelEvent
    \/ TouchStartEvent
    \/ TouchMoveEvent
    \/ TouchEndEvent
    \/ KeyDownEvent
    \/ RawFrame

Spec == Init /\ [][Next]_vars

\* The raw-view render loop: mode changes, frame callbacks and a frame
\* source that loads, becomes decodable or is replaced at any time
NextRaw ==
    \/ ViewChangeEvent
    \/ RawFrame
    \/ VideoEvent

\* scheduled frame callbacks eventually fire
SpecRawFair == Init /\ [][NextRaw]_vars /\ WF_vars(RawFrame)

SpecRaw == Init /\ [][NextRaw]_vars

\* The main render loop: the mode selector, the buttons and the PTZ fields,
\* which write pan, tilt, zoom and the offset, and the ticks of animate in
\* between
NextRender ==
    \/ ViewChangeEvent
    \/ ResetEvent
    \/ CalibrateEvent
    \/ PTZInputEvent
    \/ AnimationFrame

SpecRender == Init /\ [][NextRender]_vars

\* The raw-view render loop in a window that is resized at any time
NextResize ==
    \/ ViewChangeEvent
    \/ RawFrame
    \/ VideoEvent
    \/ WindowResize

SpecResize == Init /\ [][NextResize]_vars

---------------------------------------------------------------------------
(* Properties *)

\* the step just taken dispatched a user input event to the named handler
Ran(handler) == nEvents' = nEvents + 1 /\ lastEvent'[1] = handler

\* C1: after any sequence of operations tilt lies in [-90, 90].  A tilt
\* that is NaN (an empty PTZ text) is left aside, so that the tilt of a
\* violating state is a number outside the range.
TiltInRange == IsNaN(tilt) \/ tilt \in -90..90

\* C2: while viewLocked is true, no mouse-drag move and no touch-drag move
\* changes pan or tilt, whenever the drag began.
LockedDragFrozen ==
    [][(viewLocked /\ (Ran("onMouseMove") \/ Ran("onTouchMove")))
         => (pan' = pan /\ tilt' = tilt)]_vars

\* C3: in every reachable state at most one renderRawView callback is
\* scheduled.
AtMostOneRawLoop == rafRaw <= 1

\* C4: a step that ends in a mode other than rawview issues no call on the
\* raw canvases and schedules no renderRawView callback; a pending callback
\* that fires in such a mode is consumed without rescheduling itself.
RawLoopStopsOutsideRaw ==
    [][currentView' # "rawview"
         => /\ rawCalls' = <<>>
            /\ rafRaw' <= rafRaw
            /\ (lastEvent'[1] = "renderRawView" => rafRaw' = rafRaw - 1)]_vars

\* a pending renderRawView callback has just fired outside rawview while
\* another one is still pending
RawCallbackAfterLeaving ==
    /\ lastEvent[1] = "renderRawView"
    /\ currentView # "rawview"
    /\ rawViewInitialized
    /\ rafRaw > 0

\* C5: calibrateFrontLens leaves frontLensOffset = -p and pan = 0 for the
\* pan p it is called with, in any mode, and every resetView in stitched
\* mode (so also every one that follows a calibration, whatever came in
\* between) yields pan = 0.
CalibrationRoundTrip ==
    [][/\ Ran("calibrateFrontLens") => (frontLensOffset' = Neg(pan) /\ pan' = 0)
       /\ (Ran("resetView") /\ currentView = "stitched") => pan' = 0]_vars

\* resetView has just run in stitched mode after a calibration from a pan
\* p other than 0 (frontLensOffset holds -p), and pan is 0, not p
ResetAfterCalibration ==
    /\ lastEvent[1] = "resetView"
    /\ currentView = "stitched"
    /\ ~IsNaN(frontLensOffset)
    /\ frontLensOffset \notin {0, 91}
    /\ pan = 0
    /\ pan # Neg(frontLensOffset)

\* C6: a second calibrateFrontLens directly after a first one changes none
\* of pan, tilt, zoom, frontLensOffset and initialOrientation.
SecondCalibrationNoOp ==
    [][(lastEvent[1] = "calibrateFrontLens" /\ Ran("calibrateFrontLens"))
         => UNCHANGED <<pan, tilt, zoom, frontLensOffset, initialOrientation>>]_vars

\* C7: a mode change to stitched, front, back or flatview directly after a
\* mode change to the same mode leaves pan, tilt, zoom and viewLocked as
\* they were; after the two changes to front they are 0, 0, 100 and TRUE.
ModeChangeIdempotent ==
    [][(/\ lastEvent[1] = "handleViewChange"
        /\ Ran("handleViewChange")
        /\ lastEvent' = lastEvent
        /\ lastEvent[2] \in {"stitched", "front", "back", "flatview"})
         => /\ UNCHANGED <<pan, tilt, zoom, viewLocked>>
            /\ lastEvent[2] = "front"
                 => (pan' = 0 /\ tilt' = 0 /\ zoom' = 100 /\ viewLocked')]_vars

\* the mode has just been changed to front twice in a row, after a
\* calibration
FrontEnteredTwice ==
    /\ again
    /\ lastEvent = <<"handleViewChange", "front">>
    /\ frontLensOffset # 91

\* C8: a mode change to front or flatview ends with viewLocked and
\* (pan, tilt, zoom) = (0, 0, 100), one to back with viewLocked and
\* (180, 0, 100); frontLensOffset and initialOrientation are unchanged.
ModeEntryOrientation ==
    [][Ran("handleViewChange")
         => /\ lastEvent'[2] \in {"front", "flatview"}
                 => (viewLocked' /\ <<pan', tilt', zoom'>> = <<0, 0, 100>>)
            /\ lastEvent'[2] = "back"
                 => (viewLocked' /\ <<pan', tilt', zoom'>> = <<180, 0, 100>>)
            /\ lastEvent'[2] \in {"front", "flatview", "back"}
                 => UNCHANGED <<frontLensOffset, initialOrientation>>]_vars

\* the mode has just been changed to back after a calibration
BackEnteredAfterCalibration ==
    /\ lastEvent = <<"handleViewChange", "back">>
    /\ frontLensOffset # 91
    /\ pan = 180

\* C9: resetView sets (pan, tilt, zoom) to (0, 0, 100) in front and
\* flatview, to (180, 0, 100) in back and to initialOrientation in
\* stitched; it never changes currentView, viewLocked or frontLensOffset.
ResetByMode ==
    [][Ran("resetView")
         => /\ currentView \in {"front", "flatview"}
                 => <<pan', tilt', zoom'>> = <<0, 0, 100>>
            /\ currentView = "back"
                 => <<pan', tilt', zoom'>> = <<180, 0, 100>>
            /\ currentView = "stitched"
                 => <<pan', tilt', zoom'>> =
                      <<initialOrientation.pan, initialOrientation.tilt,
                        initialOrientation.zoom>>
            /\ UNCHANGED <<currentView, viewLocked, frontLensOffset>>]_vars

\* resetView has just run in back mode with a calibrated offset
ResetInBack ==
    /\ lastEvent[1] = "resetView"
    /\ currentView = "back"
    /\ viewLocked
    /\ frontLensOffset # 91
    /\ <<pan, tilt, zoom>> = <<180, 0, 100>>

\* the calls of the last step that went to the given raw canvas
CallsOn(canvas, op) ==
    { i \in 1..Len(rawCalls) : rawCalls[i].canvas = canvas /\ rawCalls[i].op = op }

\* C10: a run of renderRawView in rawview with a frame source that is not
\* ready or reports width 0 draws the placeholder on both raw canvases and
\* issues no drawImage.
PlaceholderWhenNotDecodable ==
    (/\ currentView = "rawview"
     /\ rawCalls # <<>>
     /\ (video.videoWidth = 0 \/ ~VideoReady(video)))
      => /\ CallsOn("front", "fillText") # {}
         /\ CallsOn("back", "fillText") # {}
         /\ CallsOn("front", "drawImage") = {}
         /\ CallsOn("back", "drawImage") = {}

---------------------------------------------------------------------------
(* Raw view: the worked scaling example *)

\* a drawImage call of the last step that crops a 3840 x 1920 frame
\* (half width 1920) onto a canvas that is 800 x 600
ExampleCall(call) ==
    /\ call.op = "drawImage"
    /\ call.sWidth = FromInt(1920)
    /\ call.sHeight = 1920
    /\ canvasSize[call.canvas] = [width |-> 800, height |-> 600]

\* C11 as stated: for a 3840 x 1920 source frame and an 800 x 600 canvas
\* the front and the back image are drawn 800 wide and 400 high at x = 0,
\* y = 100 (scale limited by the width).
ExampleWidthLimited ==
    \A i \in DOMAIN rawCalls :
        ExampleCall(rawCalls[i]) =>
            rawCalls[i].dest = [x |-> FromInt(0), y |-> FromInt(100),
                                drawWidth |-> FromInt(800),
                                drawHeight |-> FromInt(400)]

\* C11 amended: for a 3840 x 1920 source frame and an 800 x 600 canvas
\* the front and the back image are drawn 600 wide and 600 high at
\* x = 100, y = 0: each image is one 1920 x 1920 half of the frame, so the
\* scale 600 / 1920 is limited by the height.
ExampleHeightLimited ==
    \A i \in DOMAIN rawCalls :
        ExampleCall(rawCalls[i]) =>
            rawCalls[i].dest = [x |-> FromInt(100), y |-> FromInt(0),
                                drawWidth |-> FromInt(600),
                                drawHeight |-> FromInt(600)]

\* witness: the 3840 x 1920 frame has been drawn on both 800 x 600 canvases
ExampleDrawn ==
    /\ currentView = "rawview"
    /\ \E i \in DOMAIN rawCalls :
           ExampleCall(rawCalls[i]) /\ rawCalls[i].canvas = "front"
    /\ \E i \in DOMAIN rawCalls :
           ExampleCall(rawCalls[i]) /\ rawCalls[i].canvas = "back"

---------------------------------------------------------------------------
(* Zoom *)

\* C12: after any sequence of operations from the initial state, zoom
\* lies in [20, 120].
ZoomInRange == zoom \in 20..120

\* zoom + amount clamped to [20, 120]
ZoomedBy(amount) == MathMax(20, MathMin(120, Add(zoom, amount)))

\* C13: zoom gestures apply whether or not the view is locked: a wheel
\* event sets zoom to clamp(zoom + 0.05 * deltaY), a two-finger move sets
\* it to clamp(zoom + 0.1 * (previous distance - current distance)), both
\* leave pan and tilt alone; in front mode at zoom 100 a wheel deltaY of
\* -100 changes zoom, and a negative deltaY never increases zoom.
ZoomGesturesIgnoreLock ==
    [][ /\ Ran("onMouseWheel") =>
               \A deltaY \in WheelDeltas :
                   lastEvent'[2] = ToString(deltaY) =>
                       /\ zoom' = ZoomedBy(deltaY \div 20)
                       /\ pan' = pan /\ tilt' = tilt
                       /\ (deltaY < 0 => ~(zoom' > zoom))
                       /\ (currentView = "front" /\ zoom = 100 /\ deltaY = -100
                              => zoom' # zoom)
        /\ (Ran("onTouchMove") /\ lastEvent'[2] = "twoFingers") =>
               /\ zoom' = ZoomedBy((touchStartDistance - touchStartDistance') \div 10)
               /\ pan' = pan /\ tilt' = tilt
      ]_vars

\* witness: in front mode, locked at zoom 100, a wheel deltaY of -100 has
\* brought zoom to 95
LockedWheelZoomed ==
    /\ currentView = "front" /\ viewLocked
    /\ lastEvent = <<"onMouseWheel", "-100">>
    /\ zoom = 95 /\ pan = 0 /\ tilt = 0

---------------------------------------------------------------------------
(* Orientation widget and camera *)

\* C14: for every stored pan the normalized pan computed for display lies
\* in [0, 360) and is congruent to pan modulo 360, and computing it leaves
\* the stored pan unchanged.
NormalizedPanInRange ==
    [][ lastEvent'[1] = "animate" =>
            /\ compass'.normalizedPan \in 0..359
            /\ (compass'.normalizedPan - pan) % 360 = 0
            /\ pan' = pan
      ]_vars

\* C20: every tick of the main render loop, in every mode, sets the
\* camera from the state as it is at that tick: yaw = pan + frontLensOffset
\* and pitch = tilt, both converted from degrees to radians (the angle in
\* units of pi, times 180, is the angle in degrees), field of view = zoom;
\* the tick changes none of pan, tilt, zoom and frontLensOffset.
CameraFollowsState ==
    [][ lastEvent'[1] = "animate" =>
            /\ FracMul(camera'.rotationY, FromInt(180))
                   = FromInt(Add(pan, frontLensOffset))
            /\ FracMul(camera'.rotationX, FromInt(180)) = FromInt(tilt)
            /\ camera'.fov = zoom
            /\ UNCHANGED <<pan, tilt, zoom, frontLensOffset>>
      ]_vars

\* witness: a tick has rendered back mode entered after a calibration at
\* pan 45: yaw 180 - 45 = 135 degrees (3/4 pi), field of view 100
BackRenderedAfterCalibration ==
    /\ lastEvent = <<"animate", "frame">>
    /\ currentView = "back"
    /\ pan = 180 /\ frontLensOffset = -45
    /\ camera = [rotationY |-> [n |-> 3, d |-> 4],
                 rotationX |-> [n |-> 0, d |-> 1],
                 fov |-> 100]

---------------------------------------------------------------------------
(* Mode changes, calibration and the PTZ fields *)

\* C15: a mode change to stitched, from any mode and any orientation,
\* clears viewLocked and leaves pan, tilt, zoom, frontLensOffset and
\* initialOrientation as they were.
StitchedKeepsOrientation ==
    [][ (Ran("handleViewChange") /\ lastEvent'[2] = "stitched") =>
            /\ viewLocked' = FALSE
            /\ UNCHANGED <<pan, tilt, zoom, frontLensOffset, initialOrientation>>
      ]_vars

\* witness: stitched has been entered from back mode after a calibration:
\* the back orientation and zoom 100 are still there, unlocked
StitchedAfterBack ==
    /\ lastEvent = <<"handleViewChange", "stitched">>
    /\ ~viewLocked
    /\ pan = 180 /\ zoom = 100 /\ frontLensOffset # 91

\* C16: calibrateFrontLens leaves tilt, zoom, initialOrientation.tilt,
\* initialOrientation.zoom, currentView and viewLocked as they were, in
\* every mode.
CalibrationTouchesPanOnly ==
    [][ Ran("calibrateFrontLens") =>
            /\ UNCHANGED <<tilt, zoom, currentView, viewLocked>>
            /\ initialOrientation'.tilt = initialOrientation.tilt
            /\ initialOrientation'.zoom = initialOrientation.zoom
      ]_vars

\* witness: a calibration in front mode at pan 45 with the tilt at 45:
\* tilt, zoom and the lock are still there
CalibratedWhileTilted ==
    /\ lastEvent = <<"calibrateFrontLens", "click">>
    /\ currentView = "front" /\ viewLocked
    /\ tilt = 45 /\ zoom = 100
    /\ frontLensOffset = -45 /\ pan = 0

\* C17: the PTZ fields change only the field they are given: a given tilt
\* is clamped to [-90, 90], a given zoom to [20, 120], and a given pan is
\* stored as given, with no range limit.
PTZSetterStoresPanAsGiven ==
    [][ \A type \in PTZTypes, text \in PTZTexts :
            (Ran("ptzInput") /\ lastEvent'[2] = type
                 /\ PTZInputChange(type, text)) =>
                LET value == ParseFloat(text) IN
                /\ type = "pan" =>
                       pan' = value /\ tilt' = tilt /\ zoom' = zoom
                /\ type = "tilt" =>
                       /\ tilt' = MathMax(-90, MathMin(90, value))
                       /\ pan' = pan /\ zoom' = zoom
                /\ type = "zoom" =>
                       /\ zoom' = MathMax(20, MathMin(120, value))
                       /\ pan' = pan /\ tilt' = tilt
      ]_vars

\* C18: calibrateFrontLens keeps the projected yaw: pan + frontLensOffset
\* right after the call equals pan + frontLensOffset right before it.
CalibrationKeepsYaw ==
    [][ Ran("calibrateFrontLens") =>
            Add(pan', frontLensOffset') = Add(pan, frontLensOffset)
      ]_vars

\* C19: front, back and flatview imply viewLocked, stitched implies not
\* viewLocked, and no operation other than a mode change writes viewLocked.
LockFollowsMode ==
    /\ [](/\ currentView \in {"front", "back", "flatview"} => viewLocked
          /\ currentView = "stitched" => ~viewLocked)
    /\ [][ lastEvent'[1] # "handleViewChange" => viewLocked' = viewLocked ]_vars

\* witness: a reset in flatview has left the lock on
ResetInFlatview ==
    /\ lastEvent = <<"resetView", "click">>
    /\ currentView = "flatview" /\ viewLocked

---------------------------------------------------------------------------
(* Drag and pinch gestures, the home orientation *)

\* C26: the mouse drag path and the single-touch drag path are equivalent
\* step for step, in every mode: from the same state, a mouse down and a
\* one-finger touch start at the same position lead to the same state, and
\* so do a mouse move and a one-finger touch move; a move made while
\* dragging applies pan -= 0.3 * deltaX and
\* tilt = clamp(tilt + 0.3 * deltaY, -90, 90) from the previous position.
DragPathsEquivalent ==
    [][ \A p \in Points :
          /\ (Ran("onMouseDown") /\ OnMouseDown(p)) => OnTouchStart(<<p>>)
          /\ (Ran("onTouchStart") /\ OnTouchStart(<<p>>)) => OnMouseDown(p)
          /\ (Ran("onMouseMove") /\ OnMouseMove(p)) => OnTouchMove(<<p>>)
          /\ (Ran("onTouchMove") /\ OnTouchMove(<<p>>)) => OnMouseMove(p)
          /\ (Ran("onMouseMove") /\ OnMouseMove(p) /\ isDragging) =>
                 /\ pan' = Sub(pan, (3 * (p.x - previousMousePosition.x)) \div 10)
                 /\ tilt' = MathMax(-90, MathMin(90,
                       Add(tilt, (3 * (p.y - previousMousePosition.y)) \div 10)))
      ]_vars

\* C27: pinch tracking is incremental: a two-finger move sets zoom to
\* clamp(zoom + 0.1 * (previous distance - current distance)) and the
\* previous distance to the current one, so that, while no clamp is hit,
\* zoom + 0.1 * previous distance stays what it was at the start of the
\* pinch: the total change is 0.1 * (distance at start - distance at the
\* last move) however the movement is split into steps.
PinchIncremental ==
    [][ (Ran("onTouchMove") /\ lastEvent'[2] = "twoFingers") =>
            \A touches \in TouchLists :
                (Len(touches) = 2 /\ OnTouchMove(touches)) =>
                    LET distance == TouchDistance(touches)
                        unclamped == Add(zoom, (touchStartDistance - distance) \div 10)
                    IN  /\ zoom' = MathMax(20, MathMin(120, unclamped))
                        /\ touchStartDistance' = distance
                        /\ (~IsNaN(zoom) /\ unclamped \in 20..120) =>
                               10 * zoom' + touchStartDistance'
                                   = 10 * zoom + touchStartDistance
      ]_vars

\* witness: a pinch from 300 apart over 400 to 500 apart, in two moves,
\* has brought zoom from 75 to 55
PinchInTwoMoves ==
    /\ lastEvent = <<"onTouchMove", "twoFingers">>
    /\ again
    /\ touchStartDistance = 500
    /\ zoom = 55

\* C28: in every reachable state initialOrientation is {pan: 0, tilt: 0,
\* zoom: 75}, and after resetView in stitched mode pan = 0, tilt = 0 and
\* zoom = 75, whatever came before.
HomeOrientationFixed ==
    /\ initialOrientation = [pan |-> 0, tilt |-> 0, zoom |-> 75]
    /\ (lastEvent = <<"resetView", "click">> /\ currentView = "stitched") =>
           pan = 0 /\ tilt = 0 /\ zoom = 75

\* witness: a reset in stitched mode after a calibration (the offset is
\* no longer the default 91)
StitchedResetAfterCalibration ==
    /\ lastEvent = <<"resetView", "click">>
    /\ currentView = "stitched"
    /\ frontLensOffset = 0
    /\ pan = 0 /\ tilt = 0 /\ zoom = 75

---------------------------------------------------------------------------
(* Raw view: the life of the render loop *)

\* the last step's calls include the given call
Issued(calls, canvas, op) ==
    \E i \in DOMAIN calls : calls[i].canvas = canvas /\ calls[i].op = op

\* C21: while currentView stays rawview the raw-render loop never stops:
\* every iteration in rawview (the one made on entering the mode, and every
\* callback that fires there) schedules exactly one further iteration, also
\* when it finds the frame not ready, when it then draws the placeholder on
\* both canvases, and when a drawImage throws, when the error is caught and
\* the frame is skipped.
RawLoopKeepsRunning ==
    [][ /\ (lastEvent'[1] = "renderRawView" /\ currentView' = "rawview") =>
               /\ rafRaw' = (rafRaw - 1) + 1
               /\ rafRaw' >= 1
        /\ lastEvent' = <<"handleViewChange", "rawview">> =>
               rafRaw' = rafRaw + 1
        /\ (lastEvent'[1] \in {"renderRawView", "handleViewChange"}
               /\ currentView' = "rawview" /\ ~VideoReady(video')) =>
               /\ Issued(rawCalls', "front", "fillText")
               /\ Issued(rawCalls', "back", "fillText")
               /\ ~Issued(rawCalls', "front", "drawImage")
               /\ ~Issued(rawCalls', "back", "drawImage")
      ]_vars

\* witness: in rawview a callback's first drawImage has thrown, the error
\* was logged, nothing was drawn, and the next callback is scheduled
ThrownFrameSkipped ==
    /\ lastEvent = <<"renderRawView", "frame">>
    /\ currentView = "rawview"
    /\ Issued(rawCalls, "console", "error")
    /\ ~Issued(rawCalls, "front", "drawImage")
    /\ rafRaw = 1

\* C22: if the mode is switched away from rawview and never switched back,
\* then, scheduled frame callbacks eventually firing, the system reaches
\* and stays in a state with no renderRawView callback scheduled; each
\* callback pending at the switch fires once and schedules nothing.
RawLoopEnds ==
    /\ <>[](currentView # "rawview") => <>[](rafRaw = 0)
    /\ [][ (lastEvent'[1] = "renderRawView" /\ currentView # "rawview") =>
               (rafRaw' = rafRaw - 1 /\ rawCalls' = <<>>) ]_vars

\* witness: after a decodable frame was drawn in rawview the mode was left,
\* and the last pending callback has fired: none is scheduled
RawLoopDrained ==
    /\ lastEvent = <<"renderRawView", "frame">>
    /\ currentView # "rawview"
    /\ rawViewInitialized
    /\ rafRaw = 0

---------------------------------------------------------------------------
(* Raw view: resizing, empty canvases, the fit *)

\* the sizes the raw canvases have when sized from their parents as they
\* are now
SizedNow ==
    [front |-> ResizeCanvas(parentSize.front),
     back |-> ResizeCanvas(parentSize.back)]

\* C23: after any resize the next rendered frame uses the new size: in the
\* 3D modes camera.aspect is the container's width / height, and a frame
\* rendered in rawview has the raw canvases at the size their parents give
\* now and the destination rectangles computed from that size.
ResizeRecomputes ==
    /\ currentView # "rawview" => aspect = AspectOf(containerSize)
    /\ (currentView = "rawview" /\ lastEvent[1] = "renderRawView") =>
           /\ canvasSize = SizedNow
           /\ \A i \in DOMAIN rawCalls :
                  rawCalls[i].op = "drawImage" =>
                      rawCalls[i].dest = DrawRects(video, SizedNow)[rawCalls[i].canvas]

\* a raw canvas with no area
Empty(canvas) == canvas.width <= 0 \/ canvas.height <= 0

\* C24: a raw-render iteration that finds a raw canvas with zero or
\* negative width or height treats the frame, also one that is decodable
\* and has a picture, as not ready: it draws the placeholder on both
\* canvases and makes no drawImage call, and the sizes stored on the
\* canvases are numbers.
EmptyCanvasGuarded ==
    (/\ currentView = "rawview"
     /\ lastEvent[1] \in {"renderRawView", "handleViewChange"}
     /\ VideoReady(video) /\ video.videoWidth > 0
     /\ Empty(canvasSize.front) \/ Empty(canvasSize.back)) =>
        /\ Issued(rawCalls, "front", "fillText")
        /\ Issued(rawCalls, "back", "fillText")
        /\ ~Issued(rawCalls, "front", "drawImage")
        /\ ~Issued(rawCalls, "back", "drawImage")
        /\ canvasSize.front.width \in Nat /\ canvasSize.front.height \in Nat
        /\ canvasSize.back.width \in Nat /\ canvasSize.back.height \in Nat

\* C25: for a source of W x H and a canvas of dw x dh, all positive, the
\* rectangle of a drawImage call is the letterboxed fit of the half frame
\* W/2 x H into the call's own canvas: drawWidth <= dw and drawHeight <= dh
\* with equality in one of them, drawWidth * H = drawHeight * (W/2),
\* x = (dw - drawWidth) / 2 >= 0 and y = (dh - drawHeight) / 2 >= 0 (which
\* fixes the rectangle from that canvas alone), and the source rectangle is
\* the left half for the front and the right half for the back canvas, over
\* the full height.
LetterboxFit ==
    \A i \in DOMAIN rawCalls :
        LET call == rawCalls[i]
            W == FromInt(video.videoWidth)
            H == FromInt(video.videoHeight)
            half == FracDiv(W, FromInt(2))
            dw == FromInt(canvasSize[call.canvas].width)
            dh == FromInt(canvasSize[call.canvas].height)
            zero == FromInt(0)
        IN  (/\ call.op = "drawImage"
             /\ video.videoWidth > 0 /\ video.videoHeight > 0
             /\ ~Empty(canvasSize[call.canvas])) =>
                /\ FracLeq(call.dest.drawWidth, dw)
                /\ FracLeq(call.dest.drawHeight, dh)
                /\ call.dest.drawWidth = dw \/ call.dest.drawHeight = dh
                /\ FracMul(call.dest.drawWidth, H)
                       = FracMul(call.dest.drawHeight, half)
                /\ FracMul(call.dest.x, FromInt(2))
                       = FracSub(dw, call.dest.drawWidth)
                /\ FracMul(call.dest.y, FromInt(2))
                       = FracSub(dh, call.dest.drawHeight)
                /\ FracLeq(zero, call.dest.x) /\ FracLeq(zero, call.dest.y)
                /\ call.sx = (IF call.canvas = "front" THEN zero ELSE half)
                /\ call.sWidth = half
                /\ call.sy = 0 /\ call.sHeight = video.videoHeight

\* witness: the right half of a 1280 x 720 frame drawn on a back canvas of
\* 300 x 600, limited by the width: 300 x 337.5 at x = 0, y = 131.25, while
\* the front canvas is 400 x 300
NarrowBackCanvasDrawn ==
    /\ currentView = "rawview"
    /\ canvasSize.front = [width |-> 400, height |-> 300]
    /\ \E i \in DOMAIN rawCalls :
           /\ rawCalls[i].op = "drawImage" /\ rawCalls[i].canvas = "back"
           /\ rawCalls[i].dest = [x |-> [n |-> 0, d |-> 1],
                                  y |-> [n |-> 525, d |-> 4],
                                  drawWidth |-> [n |-> 300, d |-> 1],
                                  drawHeight |-> [n |-> 675, d |-> 2]]

====
